---- MODULE Spec2Model ----
(***************************************************************************)
(* Model of Assignment_SYNB.py: a Flask backend that ingests hourly        *)
(* weather observations into the SQLite table weather_data and exports the *)
(* rows of a trailing time window as a spreadsheet or a PDF report.        *)
(*                                                                         *)
(* Texts.  A timestamp is stored and compared as TEXT.  A text is modelled *)
(* as the sequence of its zero-padded fixed-width fields, so that the      *)
(* byte-wise comparison of SQLite is the lexicographic comparison of the   *)
(* sequences, a proper prefix being smaller:                               *)
(*    <<h>>        "....T0h:00"            (upstream, minutes precision)   *)
(*    <<h, s>>     "....T0h:00:0s"         (isoformat, microsecond = 0)    *)
(*    <<h, s, u>>  "....T0h:00:0s.00000u"  (isoformat, microsecond # 0)    *)
(* An instant is a number of clock ticks.                                  *)
(***************************************************************************)
EXTENDS Integers, Sequences, FiniteSets, TLC

\* ------------------------------------------------------------------ bounds
MaxHour  == 1     \* upstream observations are for the hours 0..MaxHour
MaxBatch == 2     \* longest 'time' array of an upstream payload
MaxRows  == 2     \* rows the table may hold (ingestion is cut off beyond)
MaxClock == 3     \* last instant the wall clock reaches
MaxDrift == 1     \* ticks the clock may advance between two readings
MaxWindow == 1    \* largest 'hours' argument of an export request

\* ------------------------------------------------------- values and texts
\* A value of a numeric column is a tagged tuple.
Null == <<"None">>           \* Python None, SQL NULL
NaN  == <<"nan">>            \* float('nan')
Unsupported == <<"dict">>    \* a JSON object where a number is expected
Num(v) == <<"float", v>>
IsNum(x) == Len(x) = 2

SecsPerHour == 1
TicksPerSec == 2
TicksPerHour == SecsPerHour * TicksPerSec

\* datetime.isoformat(): the microsecond part is omitted when it is zero
IsoFormat(t) ==
    LET h    == t \div TicksPerHour
        rest == t % TicksPerHour
        s    == rest \div TicksPerSec
        u    == rest % TicksPerSec
    IN  IF u = 0 THEN <<h, s>> ELSE <<h, s, u>>

\* datetime.now() - timedelta(hours=hours)
MinusHours(t, hours) == t - hours * TicksPerHour

\* comparison of TEXT values in SQLite (collation BINARY)
RECURSIVE TextLess(_, _)
TextLess(a, b) ==
    IF a = <<>> THEN b # <<>>
    ELSE IF b = <<>> THEN FALSE
    ELSE IF Head(a) # Head(b) THEN Head(a) < Head(b)
    ELSE TextLess(Tail(a), Tail(b))

TextLeq(a, b) == a = b \/ TextLess(a, b)

\* ------------------------------------------------------------- the table
\* CREATE TABLE weather_data: the only uniqueness constraint is the
\* PRIMARY KEY on id.
ConflictsOnLocation(old, new) ==
    old.latitude = new.latitude /\ old.longitude = new.longitude

Conflicts(old, new) == old.id = new.id

\* id INTEGER PRIMARY KEY AUTOINCREMENT (no row is ever deleted)
RECURSIVE MaxId(_)
MaxId(table) ==
    IF table = <<>> THEN 0
    ELSE LET m == MaxId(Tail(table))
         IN  IF Head(table).id > m THEN Head(table).id ELSE m

NextRowId(table) == MaxId(table) + 1

\* INSERT OR REPLACE INTO weather_data (timestamp, latitude, longitude,
\* temperature_2m, relative_humidity_2m): rows that conflict with the new
\* row on a uniqueness constraint are deleted, then the row is inserted.
InsertOrReplace(table, ts, lat, lon, temp, hum) ==
    LET new == [id |-> NextRowId(table), timestamp |-> ts,
                latitude |-> lat, longitude |-> lon,
                temperature_2m |-> temp, relative_humidity_2m |-> hum]
    IN  SelectSeq(table, LAMBDA old : ~Conflicts(old, new)) \o <<new>>

\* cursor.execute on a connection in the default isolation mode: the
\* statement runs inside the connection's implicit transaction.  A
\* connection is [db |-> committed table, view |-> the table as the
\* connection sees it].
ExecuteAutocommit(cn, ts, lat, lon, temp, hum) ==
    LET t == InsertOrReplace(cn.view, ts, lat, lon, temp, hum)
    IN  [db |-> t, view |-> t]

Execute(cn, ts, lat, lon, temp, hum) ==
    [db |-> cn.db, view |-> InsertOrReplace(cn.view, ts, lat, lon, temp, hum)]

\* what a statement of another connection reads: committed rows only
VisibleUncommitted(committed, writerView) == writerView

Visible(committed, writerView) == committed

\* ---------------------------------------------------- upstream payloads
Lats == {47}
Lons == {8}
Readings == {<<Num(1), Num(5)>>, <<Null, Num(7)>>}
Formats == {"minutes", "seconds"}
Defects == {"none", "short_temperature", "short_humidity", "unsupported",
            "no_hourly"}

TimeText(h, fmt) == IF fmt = "minutes" THEN <<h>> ELSE <<h, 0>>

\* the JSON body of the upstream: n hourly points from hour s on
Payload(s, n, fmt, rd, defect) ==
    LET nt == IF defect = "short_temperature" /\ n > 0 THEN n - 1 ELSE n
        nh == IF defect = "short_humidity" /\ n > 0 THEN n - 1 ELSE n
    IN  [hourly |-> defect # "no_hourly",
         time   |-> [i \in 1..n |-> TimeText(s + i - 1, fmt)],
         temperature_2m |->
             [i \in 1..nt |-> IF defect = "unsupported" /\ i = n
                              THEN Unsupported ELSE rd[1]],
         relative_humidity_2m |-> [i \in 1..nh |-> rd[2]]]

\* well-formed bodies, and bodies with one defect each
GoodPayloads ==
    { Payload(s, n, fmt, rd, "none") :
        s \in 0..MaxHour, n \in 0..MaxBatch, fmt \in Formats,
        rd \in Readings }

DefectivePayloads ==
    { Payload(0, n, "minutes", <<Num(1), Num(5)>>, defect) :
        n \in 1..MaxBatch, defect \in Defects \ {"none"} }

Payloads == GoodPayloads \cup DefectivePayloads

\* the body of a response with an error status
ErrorBodies ==
    { Payload(0, 1, "minutes", <<Num(1), Num(5)>>, "none"),
      Payload(0, 0, "minutes", <<Num(1), Num(5)>>, "no_hourly") }

\* no response, or a body that is not JSON
NoBody == Payload(0, 0, "minutes", <<Num(1), Num(5)>>, "no_hourly")

\* ------------------------------------------------------ insert_weather_data
\* timestamps, temperatures, humidity = data['hourly'][...]: the parallel
\* arrays of the body, read as one observation per index
Observations(data, lat, lon) ==
    [i \in 1..Len(data.time) |->
        [timestamp |-> data.time[i], latitude |-> lat, longitude |-> lon,
         temperature_2m |-> data.temperature_2m[i],
         relative_humidity_2m |-> data.relative_humidity_2m[i]]]

\* the failure of iteration i of the loop, in the order the statement of
\* the loop body meets it; "none" when the row is written
RowError(exists, data, i) ==
    IF i > Len(data.temperature_2m) \/ i > Len(data.relative_humidity_2m)
    THEN "IndexError"                        \* temperatures[i], humidity[i]
    ELSE IF ~exists THEN "OperationalError"  \* no such table: weather_data
    ELSE IF ~IsNum(data.temperature_2m[i]) /\ data.temperature_2m[i] # Null
    THEN "ProgrammingError"                  \* type 'dict' is not supported
    ELSE "none"

\* for i in range(len(timestamps)): cursor.execute(...)
RECURSIVE InsertLoop(_, _, _, _, _, _)
InsertLoop(cn, exists, data, lat, lon, i) ==
    IF i > Len(data.time)
    THEN [cn |-> cn, raised |-> "none", executed |-> i - 1]
    ELSE LET err == RowError(exists, data, i)
         IN  IF err # "none"
             THEN [cn |-> cn, raised |-> err, executed |-> i - 1]
             ELSE InsertLoop(Execute(cn, data.time[i], lat, lon,
                                     data.temperature_2m[i],
                                     data.relative_humidity_2m[i]),
                             exists, data, lat, lon, i + 1)

\* insert_weather_data(data, lat, lon): the committed table afterwards, the
\* exception raised and the rows executed.  conn.commit() publishes the
\* view of the connection; a raise skips it, and the transaction of the
\* abandoned connection is rolled back when the connection is finalized.
InsertWeatherData(table, exists, data, lat, lon) ==
    IF ~data.hourly
    THEN [db |-> table, raised |-> "KeyError", executed |-> 0]
    ELSE LET r == InsertLoop([db |-> table, view |-> table], exists,
                             data, lat, lon, 1)
         IN  IF r.raised = "none"
             THEN [db |-> r.cn.view, raised |-> "none",
                   executed |-> r.executed]
             ELSE [db |-> r.cn.db, raised |-> r.raised,
                   executed |-> r.executed]

\* -------------------------------------------------------------- queries
\* WHERE timestamp >= ? AND timestamp <= ?
InRangeExclusive(ts, from, to) == TextLeq(from, ts) /\ TextLess(ts, to)

InRange(ts, from, to) == TextLeq(from, ts) /\ TextLeq(ts, to)

\* ORDER BY timestamp ASC: rows of equal timestamp stay in rowid order
RECURSIVE InsertSorted(_, _)
InsertSorted(r, sorted) ==
    IF sorted = <<>> THEN <<r>>
    ELSE IF TextLess(r.timestamp, Head(sorted).timestamp)
    THEN <<r>> \o sorted
    ELSE <<Head(sorted)>> \o InsertSorted(r, Tail(sorted))

RECURSIVE OrderByTimestamp(_)
OrderByTimestamp(rows) ==
    IF rows = <<>> THEN <<>>
    ELSE InsertSorted(rows[Len(rows)],
                      OrderByTimestamp(SubSeq(rows, 1, Len(rows) - 1)))

Reverse(rows) == [i \in 1..Len(rows) |-> rows[Len(rows) + 1 - i]]

\* SELECT timestamp, temperature_2m, relative_humidity_2m, latitude, longitude
Project(r) ==
    [timestamp |-> r.timestamp, temperature_2m |-> r.temperature_2m,
     relative_humidity_2m |-> r.relative_humidity_2m,
     latitude |-> r.latitude, longitude |-> r.longitude]

\* the query of get_weather_data_from_db with params (from, to)
SelectRangeUnordered(table, from, to) ==
    LET hit == SelectSeq(table, LAMBDA r : InRange(r.timestamp, from, to))
    IN  [i \in 1..Len(hit) |-> Project(hit[i])]

SelectRange(table, from, to) ==
    LET hit  == SelectSeq(table, LAMBDA r : InRange(r.timestamp, from, to))
        proj == [i \in 1..Len(hit) |-> Project(hit[i])]
    IN  OrderByTimestamp(proj)

\* pd.read_sql_query builds the DataFrame: in a numeric column None becomes
\* NaN, except that a column holding nothing but None keeps dtype object
\* and its None values
FrameValue(column, x) ==
    IF x # Null THEN x
    ELSE IF \A i \in 1..Len(column) : column[i] = Null THEN Null ELSE NaN

ToFrame(rows) ==
    LET temps == [i \in 1..Len(rows) |-> rows[i].temperature_2m]
        hums  == [i \in 1..Len(rows) |-> rows[i].relative_humidity_2m]
    IN  [i \in 1..Len(rows) |->
            [rows[i] EXCEPT
                !.temperature_2m = FrameValue(temps, @),
                !.relative_humidity_2m = FrameValue(hums, @)]]

\* cutoff_time = (datetime.now() - timedelta(hours=hours)).isoformat()
CutoffTimeNoScale(t, hours) == IsoFormat(t - hours)

CutoffTime(t, hours) == IsoFormat(MinusHours(t, hours))

\* get_weather_data_from_db(hours), the clock reading t1 at the first
\* datetime.now() and t2 at the second
GetWeatherDataFromDb(table, exists, hours, t1, t2) ==
    LET cutoff == CutoffTime(t1, hours)
        now    == IsoFormat(t2)
        rows   == IF exists THEN SelectRange(table, cutoff, now) ELSE <<>>
    IN  [raised |-> IF exists THEN "none" ELSE "DatabaseError",
         cutoff_time |-> cutoff, now_time |-> now,
         rows |-> rows, df |-> ToFrame(rows)]

\* debug_weather_data(): COUNT(*), MIN/MAX(timestamp), the 10 latest rows
RecentLimit == 10

DebugWeatherData(table, exists) ==
    LET asc == OrderByTimestamp(table)
        n   == Len(asc)
        k   == IF n < RecentLimit THEN n ELSE RecentLimit
    IN  [raised |-> IF exists THEN "none" ELSE "OperationalError",
         total_records |-> IF exists THEN Len(table) ELSE 0,
         date_range |-> IF exists /\ n > 0
                        THEN <<asc[1].timestamp, asc[n].timestamp>>
                        ELSE <<Null, Null>>,
         recent_records |-> IF exists
                            THEN [i \in 1..k |->
                                   <<asc[n + 1 - i].timestamp,
                                     asc[n + 1 - i].temperature_2m>>]
                            ELSE <<>>]

\* get_all_weather_data_from_db(): every row, ORDER BY timestamp DESC
GetAllWeatherDataFromDb(table, exists) ==
    [raised |-> IF exists THEN "none" ELSE "DatabaseError",
     df |-> IF exists THEN Reverse(OrderByTimestamp(table)) ELSE <<>>]

\* ----------------------------------------------------------- statistics
\* pandas reductions skip NaN and None (skipna=True)
RECURSIVE Present(_)
Present(column) ==
    IF column = <<>> THEN <<>>
    ELSE IF IsNum(Head(column))
    THEN <<Head(column)[2]>> \o Present(Tail(column))
    ELSE Present(Tail(column))

RECURSIVE SumSeq(_)
SumSeq(xs) == IF xs = <<>> THEN 0 ELSE Head(xs) + SumSeq(Tail(xs))

RECURSIVE MinSeq(_)
MinSeq(xs) ==
    IF Len(xs) = 1 THEN Head(xs)
    ELSE LET m == MinSeq(Tail(xs)) IN IF Head(xs) < m THEN Head(xs) ELSE m

RECURSIVE MaxSeq(_)
MaxSeq(xs) ==
    IF Len(xs) = 1 THEN Head(xs)
    ELSE LET m == MaxSeq(Tail(xs)) IN IF Head(xs) > m THEN Head(xs) ELSE m

\* Series.mean(): the quotient sum / count is kept as <<"mean", sum, count>>
Mean(column) ==
    IF Present(column) = <<>> THEN NaN
    ELSE <<"mean", SumSeq(Present(column)), Len(Present(column))>>

SeriesMin(column) ==
    IF Present(column) = <<>> THEN NaN ELSE Num(MinSeq(Present(column)))

SeriesMax(column) ==
    IF Present(column) = <<>> THEN NaN ELSE Num(MaxSeq(Present(column)))

\* f"{row['temperature_2m']:.1f}": None has no float format
FormatRaises(x) == x = Null

TableSample == 10

\* generate_html_report(df, chart_base64, hours): the four statistics, then
\* the table rows of df.head(10)
GenerateHtmlReport(df) ==
    LET temps == [i \in 1..Len(df) |-> df[i].temperature_2m]
        hums  == [i \in 1..Len(df) |-> df[i].relative_humidity_2m]
        k     == IF Len(df) < TableSample THEN Len(df) ELSE TableSample
    IN  [stats |-> [computed |-> TRUE,
                    avg_temp |-> Mean(temps), min_temp |-> SeriesMin(temps),
                    max_temp |-> SeriesMax(temps),
                    avg_humidity |-> Mean(hums)],
         raised |-> IF \E i \in 1..k : FormatRaises(df[i].temperature_2m)
                                     \/ FormatRaises(df[i].relative_humidity_2m)
                    THEN "TypeError" ELSE "none"]

NoStats ==
    [computed |-> FALSE, avg_temp |-> NaN, min_temp |-> NaN,
     max_temp |-> NaN, avg_humidity |-> NaN]

\* ---------------------------------------------------------------- state
VARIABLES
    tableExists,  \* weather_data has been created in weather_data.db
    db,           \* the committed rows of weather_data, in rowid order
    clock,        \* the wall clock at its latest reading
    call,         \* what the latest request handler did
    resp,         \* the response of the latest request
    wr,           \* an insert_weather_data call in progress
    rd,           \* a read function in progress
    ingested      \* history: the observations of the batches committed so far

vars == <<tableExists, db, clock, call, resp, wr, rd, ingested>>

\* -------------------------------------------------------------- responses
NoResp == [handler |-> "none", status |-> 0, body |-> "none",
           error |-> FALSE, message |-> ""]

\* return jsonify({...})
JsonOk(handler) ==
    [handler |-> handler, status |-> 200, body |-> "json", error |-> FALSE,
     message |-> ""]

\* return jsonify({'error': ...}), status
JsonError(handler, status, message) ==
    [handler |-> handler, status |-> status, body |-> "json",
     error |-> TRUE, message |-> message]

\* return send_file(buffer, as_attachment=True, ...)
SendFile(handler) ==
    [handler |-> handler, status |-> 200, body |-> "file", error |-> FALSE,
     message |-> ""]

\* an exception that leaves the view function: the debugger page of Flask
Escaped(handler) ==
    [handler |-> handler, status |-> 500, body |-> "html", error |-> FALSE,
     message |-> ""]

RequestExceptions == {"ConnectionError", "Timeout", "HTTPError",
                      "JSONDecodeError"}
Exceptions == RequestExceptions \cup
    {"KeyError", "IndexError", "OperationalError", "ProgrammingError",
     "DatabaseError", "TypeError", "ValueError", "RuntimeError"}

\* the except clauses of fetch_weather_report
FetchExceptRequestOnly(exc) ==
    IF exc \in RequestExceptions
    THEN JsonError("fetch_weather_report", 500, "API request failed")
    ELSE Escaped("fetch_weather_report")

FetchExcept(exc) ==
    IF exc \in RequestExceptions
    THEN JsonError("fetch_weather_report", 500, "API request failed")
    ELSE IF exc \in Exceptions
    THEN JsonError("fetch_weather_report", 500, "Internal server error")
    ELSE Escaped("fetch_weather_report")

\* the except clause of export_excel, export_pdf and debug_data
ExportExcept(handler, message, exc) ==
    IF exc \in Exceptions THEN JsonError(handler, 500, message)
    ELSE Escaped(handler)

\* df.empty
IsEmptyNever(df) == FALSE

IsEmpty(df) == Len(df) = 0

NoCall ==
    [op |-> "none", upstream |-> "none", raised |-> "none", executed |-> 0,
     queried |-> FALSE, hours |-> 0, t1 |-> 0, t2 |-> 0,
     cutoff_time |-> <<>>, now_time |-> <<>>, rows |-> <<>>, df |-> <<>>,
     stage |-> "none", stats |-> NoStats, repeat |-> FALSE]

Idle == [pc |-> "idle"]

Init ==
    /\ tableExists = FALSE
    /\ db = <<>>
    /\ clock = 0
    /\ call = NoCall
    /\ resp = NoResp
    /\ wr = Idle
    /\ rd = Idle
    /\ ingested = <<>>

\* init_db(): CREATE TABLE IF NOT EXISTS
InitDb ==
    /\ tableExists' = TRUE
    /\ UNCHANGED <<db, clock, call, resp, wr, rd, ingested>>

\* ------------------------------------------------------ GET /weather-report
\* what the upstream can answer: the outcome of the exchange and the body
Upstreams ==
    { <<"ok", data>> : data \in Payloads } \cup
    { <<"HTTPError", data>> : data \in ErrorBodies } \cup
    { <<net, NoBody>> : net \in {"ConnectionError", "Timeout",
                                 "JSONDecodeError"} }

\* requests.get(url, params=params, timeout=10)
RequestsGet(net) ==
    IF net \in {"ConnectionError", "Timeout"} THEN net ELSE "none"

\* response.raise_for_status()
RaiseForStatusNever(net) == "none"

RaiseForStatus(net) == IF net = "HTTPError" THEN net ELSE "none"

\* response.json()
ResponseJson(net) == IF net = "JSONDecodeError" THEN net ELSE "none"

\* the try block of fetch_weather_report
FetchBody(table, exists, lat, lon, net, data) ==
    LET early == IF RequestsGet(net) # "none" THEN RequestsGet(net)
                 ELSE IF RaiseForStatus(net) # "none" THEN RaiseForStatus(net)
                 ELSE ResponseJson(net)
    IN  IF early # "none"
        THEN [db |-> table, raised |-> early, executed |-> 0]
        ELSE InsertWeatherData(table, exists, data, lat, lon)

FetchWeatherReport(lat, lon, net, data) ==
    /\ LET body == FetchBody(db, tableExists, lat, lon, net, data)
       IN  /\ Len(body.db) <= MaxRows
           /\ db' = body.db
           /\ call' = [NoCall EXCEPT !.op = "fetch_weather_report",
                                     !.upstream = net,
                                     !.raised = body.raised,
                                     !.executed = body.executed]
           /\ resp' = IF body.raised = "none"
                      THEN JsonOk("fetch_weather_report")
                      ELSE FetchExcept(body.raised)
           /\ ingested' = IF body.raised = "none"
                          THEN ingested \o Observations(data, lat, lon)
                          ELSE ingested
    /\ UNCHANGED <<tableExists, clock, wr, rd>>

\* ------------------------------------------------------- GET /export/excel
HoursArgs == 0..MaxWindow

\* timestamp ts lies in the window of a call that read the clock at t1, t2
InWindow(ts, hours, t1, t2) ==
    /\ TextLeq(IsoFormat(t1 - hours * TicksPerHour), ts)
    /\ TextLeq(ts, IsoFormat(t2))

\* this call follows a call with the same 'hours' without a write between
\* them, the clock has advanced, and no stored timestamp is in the window
\* of one call only
Repeats(hours, t1, t2) ==
    /\ call.queried
    /\ call.hours = hours
    /\ t1 > call.t1 \/ t2 > call.t2
    /\ \A i \in 1..Len(db) :
          InWindow(db[i].timestamp, hours, t1, t2)
            <=> InWindow(db[i].timestamp, hours, call.t1, call.t2)

\* the record of a get_weather_data_from_db call inside a handler
Queried(op, hours, t1, t2, q) ==
    [NoCall EXCEPT !.op = op, !.queried = (q.raised = "none"),
                   !.repeat = (q.raised = "none" /\ Repeats(hours, t1, t2)),
                   !.raised = q.raised, !.hours = hours,
                   !.t1 = t1, !.t2 = t2,
                   !.cutoff_time = q.cutoff_time, !.now_time = q.now_time,
                   !.rows = q.rows, !.df = q.df, !.stage = "query"]

ExportExcel(hours, d1, d2, render) ==
    /\ clock + d1 + d2 <= MaxClock
    /\ LET dbg == DebugWeatherData(db, tableExists)
           t1  == clock + d1
           t2  == t1 + d2
           q   == GetWeatherDataFromDb(db, tableExists, hours, t1, t2)
           c   == Queried("export_excel", hours, t1, t2, q)
       IN  IF dbg.raised # "none"
           THEN /\ call' = [NoCall EXCEPT !.op = "export_excel",
                                          !.raised = dbg.raised]
                /\ resp' = ExportExcept("export_excel",
                                        "Excel export failed", dbg.raised)
                /\ clock' = clock
           ELSE /\ clock' = t2
                /\ IF q.raised # "none"
                   THEN /\ call' = c
                        /\ resp' = ExportExcept("export_excel",
                                        "Excel export failed", q.raised)
                   ELSE IF IsEmpty(q.df)
                   THEN /\ call' = c
                        /\ resp' = JsonError("export_excel", 404,
                                        "No data available for export")
                   ELSE IF render # "ok"
                   THEN /\ call' = [c EXCEPT !.stage = "render",
                                             !.raised = "ValueError"]
                        /\ resp' = ExportExcept("export_excel",
                                        "Excel export failed", "ValueError")
                   ELSE /\ call' = [c EXCEPT !.stage = "file"]
                        /\ resp' = SendFile("export_excel")
    /\ UNCHANGED <<tableExists, db, wr, rd, ingested>>

\* --------------------------------------------------------- GET /export/pdf
\* where the rendering libraries fail: pd.to_datetime or
\* create_chart_base64, the first write_pdf only, or both write_pdf calls
PdfFaults == {"none", "chart", "write_pdf_hints", "write_pdf"}

\* the statements of export_pdf after the emptiness test
RenderPdf(c, fault) ==
    LET rep == GenerateHtmlReport(c.df)
        r   == [c EXCEPT !.stats = rep.stats]
    IN  IF fault = "chart"
        THEN [c EXCEPT !.stage = "chart", !.raised = "RuntimeError"]
        ELSE IF rep.raised # "none"
        THEN [r EXCEPT !.stage = "report", !.raised = rep.raised]
        ELSE IF fault = "write_pdf"
        THEN [r EXCEPT !.stage = "write_pdf", !.raised = "RuntimeError"]
        ELSE [r EXCEPT !.stage = "file"]

ExportPdf(hours, d1, d2, fault) ==
    /\ clock + d1 + d2 <= MaxClock
    /\ LET t1 == clock + d1
           t2 == t1 + d2
           q  == GetWeatherDataFromDb(db, tableExists, hours, t1, t2)
           c  == Queried("export_pdf", hours, t1, t2, q)
           e  == RenderPdf(c, fault)
       IN  /\ clock' = t2
           /\ IF q.raised # "none"
              THEN /\ call' = c
                   /\ resp' = ExportExcept("export_pdf",
                                           "PDF export failed", q.raised)
              ELSE IF IsEmpty(q.df)
              THEN /\ call' = c
                   /\ resp' = JsonError("export_pdf", 404,
                                        "No data available for export")
              ELSE /\ call' = e
                   /\ resp' = IF e.raised = "none"
                              THEN SendFile("export_pdf")
                              ELSE ExportExcept("export_pdf",
                                                "PDF export failed", e.raised)
    /\ UNCHANGED <<tableExists, db, wr, rd, ingested>>

\* --------------------------------------------------------- GET /debug/data
DebugData ==
    /\ LET dbg == DebugWeatherData(db, tableExists)
           all == GetAllWeatherDataFromDb(db, tableExists)
           exc == IF dbg.raised # "none" THEN dbg.raised ELSE all.raised
       IN  /\ call' = [NoCall EXCEPT !.op = "debug_data", !.raised = exc,
                                     !.rows = all.df]
           /\ resp' = IF exc = "none" THEN JsonOk("debug_data")
                      ELSE ExportExcept("debug_data", "Debug failed", exc)
    /\ UNCHANGED <<tableExists, db, clock, wr, rd, ingested>>

\* ------------------------------------------------------ GET /health, GET /
HealthCheck(d) ==
    /\ clock + d <= MaxClock
    /\ clock' = clock + d
    /\ call' = [NoCall EXCEPT !.op = "health_check", !.t1 = clock + d,
                              !.now_time = IsoFormat(clock + d)]
    /\ resp' = JsonOk("health_check")
    /\ UNCHANGED <<tableExists, db, wr, rd, ingested>>

Index ==
    /\ call' = [NoCall EXCEPT !.op = "index"]
    /\ resp' = JsonOk("index")
    /\ UNCHANGED <<tableExists, db, clock, wr, rd, ingested>>

\* ------------------------------------------------------------ the service
\* requests handled one at a time
Next ==
    \/ InitDb
    \/ \E lat \in Lats, lon \in Lons, up \in Upstreams :
          FetchWeatherReport(lat, lon, up[1], up[2])
    \/ \E hours \in HoursArgs, d1 \in 0..MaxDrift, d2 \in 0..MaxDrift,
          render \in {"ok", "fail"} : ExportExcel(hours, d1, d2, render)
    \/ \E hours \in HoursArgs, d1 \in 0..MaxDrift, d2 \in 0..MaxDrift,
          fault \in PdfFaults : ExportPdf(hours, d1, d2, fault)
    \/ DebugData
    \/ \E d \in 0..MaxDrift : HealthCheck(d)
    \/ Index

Spec == Init /\ [][Next]_vars

\* ------------------------------------------- concurrent requests, by steps
\* Flask serves requests on threads: one thread inside insert_weather_data
\* and one inside a read function, each with its own connection.  A step is
\* one SQL statement.

\* conn = sqlite3.connect(...); data['hourly'][...]
InsertBegin(lat, lon, data) ==
    /\ wr.pc = "idle"
    /\ Len(db) + Len(data.time) <= MaxRows \/ data \in DefectivePayloads
    /\ wr' = IF ~data.hourly THEN Idle      \* KeyError
             ELSE [pc |-> "loop", data |-> data, lat |-> lat, lon |-> lon,
                   i |-> 1, base |-> Len(db), view |-> db]
    /\ UNCHANGED <<tableExists, db, clock, call, resp, rd, ingested>>

\* one iteration of the loop: cursor.execute(INSERT OR REPLACE ...)
InsertExecute ==
    /\ wr.pc = "loop"
    /\ wr.i <= Len(wr.data.time)
    /\ LET err == RowError(tableExists, wr.data, wr.i)
           cn  == Execute([db |-> db, view |-> wr.view],
                          wr.data.time[wr.i], wr.lat, wr.lon,
                          wr.data.temperature_2m[wr.i],
                          wr.data.relative_humidity_2m[wr.i])
       IN  IF err # "none"
           THEN /\ wr' = Idle
                /\ db' = db
           ELSE /\ wr' = [wr EXCEPT !.i = wr.i + 1, !.view = cn.view]
                /\ db' = cn.db
    /\ UNCHANGED <<tableExists, clock, call, resp, rd, ingested>>

\* conn.commit(); conn.close()
InsertCommit ==
    /\ wr.pc = "loop"
    /\ wr.i > Len(wr.data.time)
    /\ db' = wr.view
    /\ wr' = Idle
    /\ ingested' = ingested \o Observations(wr.data, wr.lat, wr.lon)
    /\ UNCHANGED <<tableExists, clock, call, resp, rd>>

\* the SELECT statements of a read function
Statements(fn) == IF fn = "debug_weather_data" THEN 3 ELSE 1

ReadFunctions == {"get_weather_data_from_db", "debug_weather_data",
                  "get_all_weather_data_from_db"}

\* conn = sqlite3.connect('weather_data.db')
ReadBegin(fn) ==
    /\ rd.pc = "idle"
    /\ tableExists
    /\ rd' = [pc |-> "select", fn |-> fn, todo |-> Statements(fn),
              seen |-> 0, batchSeen |-> 0, batchDone |-> 0, batchLen |-> 0]
    /\ UNCHANGED <<tableExists, db, clock, call, resp, wr, ingested>>

\* one SELECT: the rows of the table it reads, and how many of them belong
\* to the batch being written at that moment
ReadSelect ==
    /\ rd.pc = "select"
    /\ rd.todo > 0
    /\ LET writing == wr.pc = "loop"
           t == Visible(db, IF writing THEN wr.view ELSE db)
       IN  rd' = [rd EXCEPT
                    !.todo = rd.todo - 1,
                    !.seen = Len(t),
                    !.batchSeen = IF writing THEN Len(t) - wr.base ELSE 0,
                    !.batchDone = IF writing THEN wr.i - 1 ELSE 0,
                    !.batchLen = IF writing THEN Len(wr.data.time) ELSE 0]
    /\ UNCHANGED <<tableExists, db, clock, call, resp, wr, ingested>>

\* conn.close(); return
ReadReturn ==
    /\ rd.pc = "select"
    /\ rd.todo = 0
    /\ rd' = Idle
    /\ UNCHANGED <<tableExists, db, clock, call, resp, wr, ingested>>

NextConc ==
    \/ InitDb
    \/ \E lat \in Lats, lon \in Lons, data \in Payloads :
          InsertBegin(lat, lon, data)
    \/ InsertExecute
    \/ InsertCommit
    \/ \E fn \in ReadFunctions : ReadBegin(fn)
    \/ ReadSelect
    \/ ReadReturn

SpecConc == Init /\ [][NextConc]_vars

\* ================================================================ claims
NaturalKey(r) == <<r.timestamp, r.latitude, r.longitude>>

Handlers == {"fetch_weather_report", "export_excel", "export_pdf",
             "debug_data"}
Exports == {"export_excel", "export_pdf"}

\* C1: the table holds at most one row per natural key (timestamp,
\* latitude, longitude); re-ingesting a key replaces its row.
C1_OneRowPerNaturalKey ==
    \A i, j \in 1..Len(db) :
        NaturalKey(db[i]) = NaturalKey(db[j]) => i = j

\* C2: insert_weather_data is all-or-nothing: when a row of the batch
\* fails, the committed table is what it was before the call and the
\* request answers with one error.
C2_FailedBatchLeavesStore ==
    [][(/\ call'.op = "fetch_weather_report"
        /\ call'.upstream = "ok"
        /\ call'.raised # "none")
       => (db' = db /\ resp'.error /\ resp'.status = 500)]_vars

\* a batch failed at its second row, over a table that held rows already
C2_Witness ==
    /\ call.op = "fetch_weather_report"
    /\ call.upstream = "ok"
    /\ call.raised \in {"IndexError", "ProgrammingError"}
    /\ call.executed >= 1
    /\ db # <<>>

\* C3: when the outbound call of GET /weather-report fails, the handler
\* answers with an error and the table is unchanged.
C3_UpstreamFailureLeavesStore ==
    [][(call'.op = "fetch_weather_report" /\ call'.upstream # "ok")
       => (/\ db' = db
           /\ resp'.body = "json" /\ resp'.error
           /\ resp'.status = 500)]_vars

C3_Witness ==
    /\ call.op = "fetch_weather_report"
    /\ call.upstream = "HTTPError"
    /\ call.raised = "HTTPError"
    /\ tableExists /\ db # <<>>
    /\ resp.status = 500

Count(seq, x) == Cardinality({i \in 1..Len(seq) : seq[i] = x})

Stored == [i \in 1..Len(db) |-> Project(db[i])]

\* C4: the range query returns exactly the stored rows with
\* from <= timestamp <= to, both bounds inclusive, in ascending timestamp
\* order; with from = to = t, only rows whose timestamp is t.
C4_RangeQueryExact ==
    call.queried =>
        /\ \A i \in 1..Len(db) :
              Count(call.rows, Stored[i]) =
                IF /\ TextLeq(call.cutoff_time, db[i].timestamp)
                   /\ TextLeq(db[i].timestamp, call.now_time)
                THEN Count(Stored, Stored[i]) ELSE 0
        /\ \A i \in 1..Len(call.rows) : Count(Stored, call.rows[i]) > 0
        /\ \A i, j \in 1..Len(call.rows) :
              i < j => TextLeq(call.rows[i].timestamp, call.rows[j].timestamp)
        /\ call.cutoff_time = call.now_time =>
              \A i \in 1..Len(call.rows) :
                  call.rows[i].timestamp = call.cutoff_time

\* a query with from = to that returns the row stored under that very text
\* and leaves out another stored row
C4_Witness ==
    /\ call.queried
    /\ call.cutoff_time = call.now_time
    /\ call.rows # <<>>
    /\ Len(call.rows) < Len(db)

\* C5: get_weather_data_from_db reads the clock once: both bounds of the
\* window come from one instant, the window is [now - hours, now].
C5_ClockReadOnce ==
    call.queried =>
        \E t \in 0..MaxClock :
            /\ call.now_time = IsoFormat(t)
            /\ call.cutoff_time = IsoFormat(MinusHours(t, call.hours))

\* C6: an export whose windowed query returns no rows answers 404 with a
\* JSON error, returns no file and computes no statistics; 404 is answered
\* in that case only, a failure being answered 500.
C6_EmptyWindowIs404 ==
    call.op \in Exports =>
        /\ (call.queried /\ call.df = <<>>) =>
              /\ resp.status = 404 /\ resp.body = "json" /\ resp.error
              /\ ~call.stats.computed
        /\ resp.status = 404 => (call.queried /\ call.df = <<>>)
        /\ call.raised # "none" => resp.status = 500

\* the table holds rows, none of them in the window
C6_Witness ==
    /\ call.op \in Exports
    /\ resp.status = 404
    /\ db # <<>>
    /\ call.hours > 0

\* C7: a request to /weather-report, /export/excel, /export/pdf or
\* /debug/data in which a failure occurs ends with a JSON body with an
\* 'error' field and a non-2xx status; no exception leaves the handler and
\* no file is returned.
C7_FailuresAreJsonErrors ==
    resp.handler \in Handlers =>
        /\ resp.body # "html"
        /\ call.raised # "none" =>
              /\ resp.body = "json" /\ resp.error
              /\ resp.status \notin 200..299
        /\ resp.body = "file" => call.raised = "none"

\* the table is missing and the ingestion of a well-formed body fails
C7_Witness ==
    /\ resp.handler = "fetch_weather_report"
    /\ call.upstream = "ok"
    /\ call.raised = "OperationalError"
    /\ ~tableExists
    /\ resp.status = 500

\* C8: a statement of a reader never sees a proper non-empty prefix of the
\* batch being written: it sees none of its rows or all of them.
C8_NoPartialBatch ==
    rd.pc = "select" =>
        (rd.batchSeen = 0 \/ rd.batchSeen = rd.batchLen)

\* a SELECT ran after the first row of a batch of two was executed
C8_Witness ==
    /\ rd.pc = "select"
    /\ rd.todo < Statements(rd.fn)
    /\ rd.batchLen = 2
    /\ rd.batchDone = 1

\* C9 as stated: two calls of get_weather_data_from_db with the same hours
\* and no write between them return the same rows.
C9_RepeatedCallSameRows ==
    [][(/\ call.queried /\ call'.queried
        /\ call'.hours = call.hours
        /\ db' = db)
       => call'.df = call.df]_vars

\* C9 amended: ... provided no stored timestamp lies in the window of one
\* call and outside the window of the other.
C9_SameRowsUnlessCrossed ==
    [][(/\ call.queried /\ call'.queried
        /\ call'.hours = call.hours
        /\ db' = db
        /\ \A i \in 1..Len(db) :
              InWindow(db[i].timestamp, call.hours, call.t1, call.t2)
                <=> InWindow(db[i].timestamp, call'.hours, call'.t1, call'.t2))
       => call'.df = call.df]_vars

\* the second of two such calls, made after the clock advanced, returning
\* some of the stored rows
C9_Witness ==
    /\ call.queried
    /\ call.repeat
    /\ call.df # <<>>
    /\ Len(call.df) < Len(db)

RECURSIVE SumOver(_, _)
SumOver(S, f) ==
    IF S = {} THEN 0
    ELSE LET x == CHOOSE y \in S : TRUE IN f[x] + SumOver(S \ {x}, f)

\* the mean of a field over the rows of the window that have it
FieldMean(field) ==
    LET has == {i \in 1..Len(call.rows) : IsNum(call.rows[i][field])}
        val == [i \in has |-> call.rows[i][field][2]]
    IN  IF has = {} THEN NaN
        ELSE <<"mean", SumOver(has, val), Cardinality(has)>>

\* C10: the statistics of the report are computed over the rows of the
\* window whose field is not null; when every row is null in the field
\* the statistic is undefined, never 0, and producing the report raises no
\* error.
C10_SummaryIgnoresNull ==
    (call.op = "export_pdf" /\ call.stats.computed) =>
        /\ call.stats.avg_temp = FieldMean("temperature_2m")
        /\ call.stats.avg_humidity = FieldMean("relative_humidity_2m")
        /\ \A i \in 1..Len(call.rows) :
              IsNum(call.rows[i].temperature_2m) =>
                /\ IsNum(call.stats.min_temp) /\ IsNum(call.stats.max_temp)
                /\ call.stats.min_temp[2] <= call.rows[i].temperature_2m[2]
                /\ call.stats.max_temp[2] >= call.rows[i].temperature_2m[2]
        /\ (\A i \in 1..Len(call.rows) : call.rows[i].temperature_2m = Null)
              => /\ call.stats.avg_temp = NaN
                 /\ call.stats.min_temp = NaN /\ call.stats.max_temp = NaN
                 /\ ~(call.stage = "report" /\ call.raised # "none")

\* the natural keys of a sequence of observations are pairwise distinct
KeysDistinct(obs) ==
    \A i, j \in 1..Len(obs) :
        i # j => NaturalKey(obs[i]) # NaturalKey(obs[j])

\* the window of the latest query covers every ingested timestamp
Covered ==
    \A i \in 1..Len(ingested) :
        /\ TextLeq(call.cutoff_time, ingested[i].timestamp)
        /\ TextLeq(ingested[i].timestamp, call.now_time)

\* a missing reading, as SQL NULL / None or as the NaN of a float column
Absent(x) == x \in {Null, NaN}

SameReading(x, y) == x = y \/ (Absent(x) /\ Absent(y))

\* a returned row carries the values of observation o
SameObservation(row, o) ==
    /\ NaturalKey(row) = NaturalKey(o)
    /\ SameReading(row.temperature_2m, o.temperature_2m)
    /\ SameReading(row.relative_humidity_2m, o.relative_humidity_2m)

\* C11: round trip.  When the observations ingested into the initially
\* empty store have pairwise distinct natural keys and the window of a
\* query covers all their timestamps, the query returns exactly as many
\* rows as were ingested, each ingested observation exactly once with its
\* values (in the SQL result as written, in the DataFrame with a missing
\* reading still missing), in strictly ascending timestamp order.
C11_RoundTrip ==
    (call.queried /\ KeysDistinct(ingested) /\ Covered) =>
        /\ Len(call.rows) = Len(ingested)
        /\ Len(call.df) = Len(ingested)
        /\ \A i \in 1..Len(ingested) :
              /\ Count(call.rows, ingested[i]) = 1
              /\ Cardinality({ j \in 1..Len(call.df) :
                    SameObservation(call.df[j], ingested[i]) }) = 1
        /\ \A i, j \in 1..Len(call.df) :
              i < j => TextLess(call.df[i].timestamp, call.df[j].timestamp)

\* two observations ingested latest-first, one of them with a missing
\* temperature, and a query whose window covers both
C11_Witness ==
    /\ call.queried
    /\ Len(ingested) = 2
    /\ KeysDistinct(ingested)
    /\ Covered
    /\ TextLess(ingested[2].timestamp, ingested[1].timestamp)
    /\ \E i \in 1..2 : ingested[i].temperature_2m = Null
    /\ Len(call.df) = 2

Keys(table) == { NaturalKey(table[i]) : i \in 1..Len(table) }

\* C12: observations are never deleted.  Every natural key in the store is
\* in the store after every step; a step that changes the store is a
\* successful /weather-report request, and a step in which an export, the
\* health check, the index or the debug dump answers leaves the store as
\* it was.
C12_NeverDeleted ==
    [][ /\ Keys(db) \subseteq Keys(db')
        /\ db' # db =>
              /\ call'.op = "fetch_weather_report"
              /\ call'.raised = "none"
              /\ resp'.handler = "fetch_weather_report"
        /\ resp'.handler \in Handlers \ {"fetch_weather_report"} =>
              db' = db ]_vars

\* a non-empty store has been read by an export that delivered its file
C12_Witness ==
    /\ Len(db) >= 2
    /\ call.op \in Exports
    /\ call.stage = "file"
    /\ resp.handler \in Exports

====
